---- MODULE Spec2Model ----
(***************************************************************************)
(* Model of app/main.py of the voya backend: the paper-metadata extractor  *)
(* (extract_paper_meta), the PDF page index (_load_pdfs), the retrieval    *)
(* matcher (_best_page_match) and the /answer and /ingest handlers.        *)
(*                                                                         *)
(* Text is modelled as a sequence of tokens.  A token is a string: a word  *)
(* (a run of word characters, or one punctuation mark) or the white-space  *)
(* character " ".  Two adjacent words are separated by exactly one space,  *)
(* which is not written; any further white space, and white space at the  *)
(* ends of a text, is written as " " tokens.  Every \b and \s* of the      *)
(* source's regular expressions therefore falls between two tokens.        *)
(***************************************************************************)
EXTENDS Integers, Sequences, FiniteSets, TLC

VARIABLES
    message,    \* extract_paper_meta: the argument (optional text)
    mpc,        \* extract_paper_meta: position in the function body
    text,       \* extract_paper_meta: local text
    exam,       \* extract_paper_meta: local exam
    session,    \* extract_paper_meta: local session
    paper,      \* extract_paper_meta: local paper
    variant,    \* extract_paper_meta: local variant
    meta,       \* extract_paper_meta: the returned dict
    paths,      \* _load_pdfs: the argument, a list of paths
    disk,       \* the file behind each path: disk[k] is what paths[k] names
    PdfReader,  \* TRUE when pypdf was imported, FALSE when PdfReader is None
    PDF_INDEX,  \* the module-level list of PageChunk
    lpc,        \* _load_pdfs: "start", "done" or "raised"
    query,      \* _best_page_match: the argument
    fuzz,       \* TRUE when rapidfuzz was imported, FALSE when fuzz is None
    ratio,      \* fuzz.token_set_ratio as a function of <<query, chunk text>>
    qpc,        \* _best_page_match: "start" or "done"
    result,     \* _best_page_match: what the call returned
    VOYA_API_KEY,   \* the server's key, "" when the environment has none
    OPENAI_API_KEY, \* the completion service's key, "" when unset
    req         \* the requests in flight: req[r] is what handler run r has done

metaVars == <<message, mpc, text, exam, session, paper, variant, meta>>

loadVars == <<paths, disk, PdfReader, PDF_INDEX, lpc>>

matchVars == <<query, fuzz, ratio, qpc, result>>

serverVars == <<VOYA_API_KEY, OPENAI_API_KEY, req>>

vars == <<metaVars, loadVars, matchVars, serverVars>>

(***************************************************************************)
(* Bounds                                                                  *)
(***************************************************************************)
MaxTextLen == 4

MaxPages == 2

MaxMatchPages == 2

NumReq == 2

(***************************************************************************)
(* Strings and optional values                                             *)
(***************************************************************************)
Unknown == "Unknown"

WS == " "

Some(v) == [some |-> TRUE, val |-> v]

None == [some |-> FALSE, val |-> <<>>]

(***************************************************************************)
(* Values of the variables a specification does not use                    *)
(***************************************************************************)
NoChunk == <<>>

NoMeta == [exam |-> "", session |-> "", paper |-> "", variant |-> ""]

NoResult == [chunk |-> NoChunk, score |-> 0, scored |-> 0, exc |-> FALSE]

MetaIdle ==
    /\ message = None
    /\ mpc = "idle"
    /\ text = None
    /\ exam = "" /\ session = "" /\ paper = "" /\ variant = ""
    /\ meta = NoMeta

LoadIdle ==
    /\ paths = <<>>
    /\ disk = <<>>
    /\ PdfReader = FALSE
    /\ PDF_INDEX = <<>>
    /\ lpc = "idle"

MatchIdle ==
    /\ query = <<>>
    /\ fuzz = FALSE
    /\ ratio = <<>>
    /\ qpc = "idle"
    /\ result = NoResult

NoRetrieval == <<>>

NoPrompt == [message |-> <<>>, context |-> <<>>, meta |-> NoMeta]

NoResponse ==
    [received |-> <<>>, paper_meta |-> NoMeta, template_answer |-> "", retrieval |-> NoRetrieval]

\* a handler run that has not started
Idle ==
    [pc |-> "idle", ep |-> "", hdr |-> <<>>, status |-> 0, kind |-> "",
     didMeta |-> FALSE, didMatch |-> FALSE, scored |-> 0, sent |-> FALSE,
     query |-> <<>>, best |-> NoChunk, score |-> 0,
     matched_doc |-> <<>>, matched_page |-> <<>>, context_note |-> <<>>,
     prompt |-> NoPrompt, response |-> NoResponse]

ServerIdle ==
    /\ VOYA_API_KEY = ""
    /\ OPENAI_API_KEY = ""
    /\ req = <<>>

Digit == {"0", "1", "2", "3", "4", "5", "6", "7", "8", "9"}

IsDigits(s) == Len(s) > 0 /\ \A i \in 1..Len(s) : SubSeq(s, i, i) \in Digit

DigitVal(c) ==
    CASE c = "0" -> 0 [] c = "1" -> 1 [] c = "2" -> 2 [] c = "3" -> 3
      [] c = "4" -> 4 [] c = "5" -> 5 [] c = "6" -> 6 [] c = "7" -> 7
      [] c = "8" -> 8 [] c = "9" -> 9

\* int(y) for a string of two digits
IntOf2(y) == 10 * DigitVal(SubSeq(y, 1, 1)) + DigitVal(SubSeq(y, 2, 2))

LowerChar(c) ==
    CASE c = "A" -> "a" [] c = "B" -> "b" [] c = "C" -> "c" [] c = "D" -> "d"
      [] c = "E" -> "e" [] c = "F" -> "f" [] c = "G" -> "g" [] c = "H" -> "h"
      [] c = "I" -> "i" [] c = "J" -> "j" [] c = "K" -> "k" [] c = "L" -> "l"
      [] c = "M" -> "m" [] c = "N" -> "n" [] c = "O" -> "o" [] c = "P" -> "p"
      [] c = "Q" -> "q" [] c = "R" -> "r" [] c = "S" -> "s" [] c = "T" -> "t"
      [] c = "U" -> "u" [] c = "V" -> "v" [] c = "W" -> "w" [] c = "X" -> "x"
      [] c = "Y" -> "y" [] c = "Z" -> "z" [] OTHER -> c

RECURSIVE Lower(_)
\* str.lower(), and the case folding of re.IGNORECASE
Lower(s) ==
    IF Len(s) = 0 THEN ""
    ELSE LowerChar(SubSeq(s, 1, 1)) \o Lower(SubSeq(s, 2, Len(s)))

RECURSIVE Words(_)
\* the word tokens of a text, in order (whitespace runs dropped)
Words(t) ==
    IF t = <<>> THEN <<>>
    ELSE IF Head(t) = WS THEN Words(Tail(t))
    ELSE <<Head(t)>> \o Words(Tail(t))

(***************************************************************************)
(* Pattern library.  A pattern is a sequence of elements, one per token;   *)
(* an element says which tokens it accepts and whether it is a capture     *)
(* group.                                                                  *)
(***************************************************************************)
Lit(ws) == [cls |-> "lit", lits |-> ws, cap |-> FALSE]

MONTHS ==
    [cls |-> "lit", cap |-> TRUE, lits |->
        {"jan", "january", "feb", "february", "mar", "march", "apr", "april",
         "may", "jun", "june", "jul", "july", "aug", "august",
         "sep", "sept", "september", "oct", "october", "nov", "november",
         "dec", "december"}]

YEAR == [cls |-> "year", lits |-> {}, cap |-> TRUE]

\* (\d{1,2}) followed by \b
NUM12 == [cls |-> "num12", lits |-> {}, cap |-> TRUE]

EXAM_HINTS == <<
    [label |-> "Cambridge IGCSE",
     alts |-> {<<Lit({"cambridge"}), Lit({"igcse"})>>, <<Lit({"cie"}), Lit({"igcse"})>>}],
    [label |-> "IGCSE", alts |-> {<<Lit({"igcse"})>>}],
    [label |-> "GCSE", alts |-> {<<Lit({"gcse"})>>}],
    [label |-> "AQA", alts |-> {<<Lit({"aqa"})>>}],
    [label |-> "Edexcel", alts |-> {<<Lit({"edexcel"})>>}],
    [label |-> "IB",
     alts |-> {<<Lit({"international"}), Lit({"baccalaureate"})>>, <<Lit({"ib"})>>}],
    [label |-> "Cambridge", alts |-> {<<Lit({"cie"})>>, <<Lit({"cambridge"})>>}],
    [label |-> "SAT", alts |-> {<<Lit({"sat"})>>}],
    [label |-> "ACT", alts |-> {<<Lit({"act"})>>}] >>

PAPER_PATTERNS == <<
    [pat |-> <<Lit({"paper"}), NUM12, Lit({"variant"}), NUM12>>, kind |-> "both"],
    [pat |-> <<Lit({"paper"}), NUM12>>, kind |-> "paper"],
    [pat |-> <<Lit({"variant"}), NUM12>>, kind |-> "variant"],
    [pat |-> <<Lit({"p", "paper"}), NUM12>>, kind |-> "paper"] >>

SESSION_PATTERNS == <<
    [pat |-> <<MONTHS, Lit({"/"}), MONTHS, YEAR>>, kind |-> "two_months_year"],
    [pat |-> <<MONTHS, YEAR>>, kind |-> "month_year"],
    [pat |-> <<YEAR>>, kind |-> "year_only"] >>

\* does token tok satisfy pattern element e (case-insensitively)
ElemMatches(e, tok) ==
    CASE e.cls = "lit" -> Lower(tok) \in e.lits
      [] e.cls = "num12" -> IsDigits(tok) /\ Len(tok) \in {1, 2}
      [] e.cls = "year" ->
            /\ IsDigits(tok)
            /\ \/ Len(tok) = 2
               \/ Len(tok) = 4 /\ SubSeq(tok, 1, 2) \in {"20", "19"}

MatchAt(pat, w, i) ==
    /\ i + Len(pat) - 1 <= Len(w)
    /\ \A k \in 1..Len(pat) : ElemMatches(pat[k], w[i + k - 1])

\* re.search: position of the leftmost match, 0 when there is none
Search(pat, w) ==
    IF \E i \in 1..Len(w) : MatchAt(pat, w, i)
    THEN CHOOSE i \in 1..Len(w) :
            /\ MatchAt(pat, w, i)
            /\ \A j \in 1..(i - 1) : ~MatchAt(pat, w, j)
    ELSE 0

RECURSIVE CapturesFrom(_, _, _, _)
CapturesFrom(pat, w, i, k) ==
    IF k > Len(pat) THEN <<>>
    ELSE (IF pat[k].cap THEN <<w[i + k - 1]>> ELSE <<>>)
            \o CapturesFrom(pat, w, i, k + 1)

\* m.group(1), m.group(2), ... of the match of pat at position i
Groups(pat, w, i) == CapturesFrom(pat, w, i, 1)

(***************************************************************************)
(* extract_paper_meta                                                      *)
(***************************************************************************)
_norm_year(y) ==
    IF Len(y) = 2
    THEN (IF IntOf2(y) <= 49 THEN "20" \o y ELSE "19" \o y)
    ELSE y

\* text = message, without the default
TextOfNoDefault(msg) == msg

\* text = message or ""
TextOf(msg) == IF msg.some THEN msg ELSE Some(<<>>)

\* re.search raises TypeError when handed None instead of a string
ReSearchRaises(t) == ~t.some

RECURSIVE ExamFrom(_, _)
\* the exam loop from entry k on: first hint whose pattern is found, and break
ExamFrom(w, k) ==
    IF k > Len(EXAM_HINTS) THEN Unknown
    ELSE IF \E a \in EXAM_HINTS[k].alts : Search(a, w) # 0
         THEN EXAM_HINTS[k].label
         ELSE ExamFrom(w, k + 1)

SessionDisplay(kind, g) ==
    CASE kind = "two_months_year" ->
            g[1] \o "/" \o g[2] \o " " \o _norm_year(g[3])
      [] kind = "month_year" -> g[1] \o " " \o _norm_year(g[2])
      [] kind = "year_only" -> _norm_year(g[1])

RECURSIVE SessionFrom(_, _)
\* the session loop from entry k on: first pattern found formats and breaks
SessionFrom(w, k) ==
    IF k > Len(SESSION_PATTERNS) THEN Unknown
    ELSE LET p == SESSION_PATTERNS[k]
             i == Search(p.pat, w)
         IN  IF i = 0 THEN SessionFrom(w, k + 1)
             ELSE SessionDisplay(p.kind, Groups(p.pat, w, i))

\* one iteration of the paper/variant loop on the locals pv = [paper, variant, brk]
PaperStep(w, k, pv) ==
    LET p == PAPER_PATTERNS[k]
        i == Search(p.pat, w)
        g == Groups(p.pat, w, i)
    IN  IF i = 0 THEN pv
        ELSE CASE p.kind = "both" ->
                    [paper |-> g[1], variant |-> g[2], brk |-> TRUE]
               [] p.kind = "paper" -> [pv EXCEPT !.paper = g[1]]
               [] p.kind = "variant" -> [pv EXCEPT !.variant = g[1]]

RECURSIVE PaperFrom(_, _, _)
PaperFrom(w, k, pv) ==
    IF k > Len(PAPER_PATTERNS) \/ pv.brk THEN pv
    ELSE PaperFrom(w, k + 1, PaperStep(w, k, pv))

\* the whole paper/variant loop, from paper = variant = "Unknown"
PaperPass(w) ==
    PaperFrom(w, 1, [paper |-> Unknown, variant |-> Unknown, brk |-> FALSE])

\* the split test without the variant check
SplitCondAnyVariant(p, v) == IsDigits(p) /\ Len(p) = 2

\* if variant == "Unknown" and re.fullmatch(r"\d{2}", paper or "")
SplitCond(p, v) == v = Unknown /\ IsDigits(p) /\ Len(p) = 2

SplitDigits(p, v) ==
    IF SplitCond(p, v)
    THEN [paper |-> SubSeq(p, 1, 1), variant |-> SubSeq(p, 2, 2)]
    ELSE [paper |-> p, variant |-> v]

\* the function as a whole, for callers
extract_paper_meta(msg) ==
    LET w == Words(TextOf(msg).val)
        pv == PaperPass(w)
        sp == SplitDigits(pv.paper, pv.variant)
    IN  [exam |-> ExamFrom(w, 1), session |-> SessionFrom(w, 1),
         paper |-> sp.paper, variant |-> sp.variant]

(***************************************************************************)
(* Inputs of the extractor                                                 *)
(***************************************************************************)
MetaVocab ==
    {"Paper", "p", "Variant", "4", "42", "Cambridge", "igcse", "May", "/", "2021"}

RECURSIVE SeqsUpTo(_, _)
SeqsUpTo(S, n) ==
    IF n = 0 THEN {<<>>}
    ELSE LET shorter == SeqsUpTo(S, n - 1)
         IN  shorter \cup {Append(s, x) : s \in {t \in shorter : Len(t) = n - 1}, x \in S}

\* the examples of the documentation, and texts with white space around words
MetaExamples ==
    { <<"Cambridge", "IGCSE", "Chemistry", "0620", "Paper", "4", "Variant", "2",
        "May", "/", "Jun", "2021">>,
      <<"P", "2", "Paper", "4">>,
      <<"AQA", "paper", "1", "June", "87">>,
      <<WS>>,
      <<WS, "Paper", WS, "42", WS>> }

MetaTexts == SeqsUpTo(MetaVocab, MaxTextLen) \cup MetaExamples

InitMeta ==
    /\ LoadIdle /\ MatchIdle /\ ServerIdle
    /\ message \in {Some(t) : t \in MetaTexts} \cup {None}
    /\ mpc = "entry"
    /\ text = None
    /\ exam = "" /\ session = "" /\ paper = "" /\ variant = ""
    /\ meta = NoMeta

\* lines 98-102
MetaEntry ==
    /\ mpc = "entry"
    /\ mpc' = "exam"
    /\ text' = TextOf(message)
    /\ exam' = Unknown /\ session' = Unknown /\ paper' = Unknown /\ variant' = Unknown
    /\ UNCHANGED <<message, meta, loadVars, matchVars, serverVars>>

\* lines 104-107
MetaExam ==
    /\ mpc = "exam"
    /\ IF ReSearchRaises(text)
       THEN mpc' = "raised" /\ exam' = exam
       ELSE mpc' = "session" /\ exam' = ExamFrom(Words(text.val), 1)
    /\ UNCHANGED <<message, text, session, paper, variant, meta, loadVars, matchVars, serverVars>>

\* lines 109-124
MetaSession ==
    /\ mpc = "session"
    /\ session' = SessionFrom(Words(text.val), 1)
    /\ mpc' = "paper"
    /\ UNCHANGED <<message, text, exam, paper, variant, meta, loadVars, matchVars, serverVars>>

\* lines 126-137
MetaPaper ==
    /\ mpc = "paper"
    /\ LET pv == PaperPass(Words(text.val))
       IN  paper' = pv.paper /\ variant' = pv.variant
    /\ mpc' = "split"
    /\ UNCHANGED <<message, text, exam, session, meta, loadVars, matchVars, serverVars>>

\* lines 139-142
MetaReturn ==
    /\ mpc = "split"
    /\ LET sp == SplitDigits(paper, variant)
       IN  /\ paper' = sp.paper
           /\ variant' = sp.variant
           /\ meta' = [exam |-> exam, session |-> session,
                       paper |-> sp.paper, variant |-> sp.variant]
    /\ mpc' = "done"
    /\ UNCHANGED <<message, text, exam, session, loadVars, matchVars, serverVars>>

NextMeta == MetaEntry \/ MetaExam \/ MetaSession \/ MetaPaper \/ MetaReturn

SpecMeta == InitMeta /\ [][NextMeta]_vars

(***************************************************************************)
(* The PDF page index: PageChunk, the files on disk, _load_pdfs            *)
(***************************************************************************)
PageChunk(d, p, t) == [doc |-> d, page |-> p, text |-> t]

RECURSIVE LStrip(_)
LStrip(t) == IF t # <<>> /\ Head(t) = WS THEN LStrip(Tail(t)) ELSE t

RECURSIVE RStrip(_)
RStrip(t) == IF t # <<>> /\ t[Len(t)] = WS THEN RStrip(SubSeq(t, 1, Len(t) - 1)) ELSE t

\* str.strip()
Strip(t) == RStrip(LStrip(t))

\* os.path.basename of a path given as its components
Basename(p) == p[Len(p)]

\* What page.extract_text() does on one page: raises, or returns None or a text.
Raises == [raises |-> TRUE, ret |-> None]

Returns(v) == [raises |-> FALSE, ret |-> v]

\* What a path names.  exists: os.path.exists(p); opens: PdfReader(p) returns;
\* pages: the pages the loop over reader.pages gets, in order; aborts: after
\* these pages an exception escapes the loop body or the page iterator (so the
\* loop never ends normally).
Missing == [exists |-> FALSE, opens |-> FALSE, pages |-> <<>>, aborts |-> FALSE]

Unopenable == [exists |-> TRUE, opens |-> FALSE, pages |-> <<>>, aborts |-> FALSE]

Doc(ps, ab) == [exists |-> TRUE, opens |-> TRUE, pages |-> ps, aborts |-> ab]

\* t = page.extract_text(), the exception left to propagate
ExtractUncaught(o) ==
    IF o.raises THEN [exc |-> TRUE, t |-> <<>>]
    ELSE [exc |-> FALSE, t |-> IF o.ret.some THEN o.ret.val ELSE <<>>]

\* try: t = page.extract_text() or ""  except Exception: t = ""
ExtractText(o) ==
    IF o.raises THEN [exc |-> FALSE, t |-> <<>>]
    ELSE [exc |-> FALSE, t |-> IF o.ret.some THEN o.ret.val ELSE <<>>]

RECURSIVE LoadPages(_, _, _, _)
\* the loop over enumerate(reader.pages) from page i (0-based i = i1 - 1) on;
\* appends go straight to the index; exc: an exception left the loop
LoadPages(p, d, i1, idx) ==
    IF i1 > Len(d.pages) THEN [index |-> idx, exc |-> d.aborts]
    ELSE LET r == ExtractText(d.pages[i1])
         IN  IF r.exc THEN [index |-> idx, exc |-> TRUE]
             ELSE LoadPages(p, d, i1 + 1,
                    IF Strip(r.t) # <<>>
                    THEN Append(idx, PageChunk(Basename(p), i1, r.t))
                    ELSE idx)

\* the body of the outer try without its except clause
LoadDocUncaught(p, d, idx) ==
    IF ~d.opens THEN [index |-> idx, exc |-> TRUE]
    ELSE LoadPages(p, d, 1, idx)

\* try: reader = PdfReader(p); for ... except Exception: continue
LoadDoc(p, d, idx) ==
    LET r == IF ~d.opens THEN [index |-> idx, exc |-> TRUE]
             ELSE LoadPages(p, d, 1, idx)
    IN  [index |-> r.index, exc |-> FALSE]

RECURSIVE LoadFrom(_, _, _, _)
\* the loop over paths from position k on
LoadFrom(ps, dk, k, idx) ==
    IF k > Len(ps) THEN [index |-> idx, exc |-> FALSE]
    ELSE IF ~dk[k].exists THEN LoadFrom(ps, dk, k + 1, idx)
    ELSE LET r == LoadDoc(ps[k], dk[k], idx)
         IN  IF r.exc THEN r ELSE LoadFrom(ps, dk, k + 1, r.index)

\* _load_pdfs(paths) run on the index idx
_load_pdfs(ps, dk, reader, idx) ==
    IF ~reader THEN [index |-> idx, exc |-> FALSE]
    ELSE LoadFrom(ps, dk, 1, idx)

\* the call at import time
StartupPaths ==
    << <<"QB1.pdf">>, <<"QB2.pdf">>, <<"QB3.pdf">>, <<"QB4.pdf">>, <<"QB5.pdf">> >>

(***************************************************************************)
(* Inputs of the loader                                                    *)
(***************************************************************************)
PathLists ==
    { <<>>,
      << <<"QB1.pdf">> >>,
      << <<"QB1.pdf">>, <<"QB2.pdf">> >>,
      << <<"papers", "QB2.pdf">>, <<"QB1.pdf">> >> }

PageOutcomes == {Raises, Returns(None), Returns(Some(<<WS>>)), Returns(Some(<<"a", WS>>))}

DocStates ==
    {Missing, Unopenable}
        \cup {Doc(ps, ab) : ps \in SeqsUpTo(PageOutcomes, MaxPages), ab \in BOOLEAN}

InitLoad ==
    /\ MetaIdle /\ MatchIdle /\ ServerIdle
    /\ paths \in PathLists
    /\ disk \in [1..Len(paths) -> DocStates]
    /\ PdfReader \in BOOLEAN
    /\ PDF_INDEX = <<>>
    /\ lpc = "start"

\* lines 155-173
Load ==
    /\ lpc = "start"
    /\ LET r == _load_pdfs(paths, disk, PdfReader, PDF_INDEX)
       IN  /\ PDF_INDEX' = r.index
           /\ lpc' = IF r.exc THEN "raised" ELSE "done"
    /\ UNCHANGED <<paths, disk, PdfReader, metaVars, matchVars, serverVars>>

NextLoad == Load

SpecLoad == InitLoad /\ [][NextLoad]_vars

(***************************************************************************)
(* _best_page_match                                                        *)
(***************************************************************************)
\* if s >= best_score
AtLeast(s, best_score) == s >= best_score

\* if s > best_score
Better(s, best_score) == s > best_score

RECURSIVE Scan(_, _, _, _, _, _)
\* the loop over PDF_INDEX from position i on; rt is token_set_ratio(q, .)
Scan(idx, q, rt, i, best, best_score) ==
    IF i > Len(idx)
    THEN [chunk |-> best, score |-> best_score, scored |-> Len(idx), exc |-> FALSE]
    ELSE LET s == rt[<<q, idx[i].text>>]
         IN  IF Better(s, best_score)
             THEN Scan(idx, q, rt, i + 1, <<idx[i]>>, s)
             ELSE Scan(idx, q, rt, i + 1, best, best_score)

\* the guard without the test of fuzz
NoScanIgnoringFuzz(idx, q, fz) == idx = <<>> \/ Strip(q) = <<>>

\* if not PDF_INDEX or not query.strip() or fuzz is None
NoScan(idx, q, fz) == idx = <<>> \/ Strip(q) = <<>> \/ ~fz

\* chunk is <<>> for None and <<c>> for the chunk c; scored counts the calls
\* of token_set_ratio; exc: fuzz.token_set_ratio was reached with fuzz = None
_best_page_match(q, idx, fz, rt) ==
    IF NoScan(idx, q, fz)
    THEN [chunk |-> NoChunk, score |-> 0, scored |-> 0, exc |-> FALSE]
    ELSE IF ~fz
    THEN [chunk |-> NoChunk, score |-> -1, scored |-> 0, exc |-> TRUE]
    ELSE Scan(idx, Strip(q), rt, 1, NoChunk, -1)

(***************************************************************************)
(* Inputs of the matcher                                                   *)
(***************************************************************************)
ScoreVals == {0, 59, 60, 100}

Queries == {<<>>, <<WS>>, <<"q">>, <<WS, "q", WS>>}

MatchTexts == {<<"a">>, <<WS, "b">>}

MatchPageOutcomes == {Returns(Some(t)) : t \in MatchTexts}

MatchDisks ==
    [1..2 -> {Doc(ps, FALSE) : ps \in SeqsUpTo(MatchPageOutcomes, MaxMatchPages)}]

\* the pairs token_set_ratio can be asked about
RatioDomain(qs, ts) == {<<Strip(q), t>> : q \in {x \in qs : Strip(x) # <<>>}, t \in ts}

\* the state after import: the index is what _load_pdfs built from some disk
InitMatch ==
    /\ MetaIdle /\ ServerIdle
    /\ paths = SubSeq(StartupPaths, 1, 2)
    /\ disk \in MatchDisks
    /\ PdfReader = TRUE
    /\ PDF_INDEX = _load_pdfs(paths, disk, PdfReader, <<>>).index
    /\ lpc = "done"
    /\ query \in Queries
    /\ fuzz \in BOOLEAN
    /\ ratio \in [RatioDomain(Queries, MatchTexts) -> ScoreVals]
    /\ qpc = "start"
    /\ result = NoResult

\* lines 176-189
Match ==
    /\ qpc = "start"
    /\ result' = _best_page_match(query, PDF_INDEX, fuzz, ratio)
    /\ qpc' = "done"
    /\ UNCHANGED <<query, fuzz, ratio, metaVars, loadVars, serverVars>>

NextMatch == Match

SpecMatch == InitMatch /\ [][NextMatch]_vars

(***************************************************************************)
(* The handlers: /ingest and /answer                                       *)
(***************************************************************************)
THRESHOLD == 60

SNIPPET_CHARS == 1200

\* x_api_key != VOYA_API_KEY alone; hdr is <<>> for no header, <<s>> for s
UnauthorizedKeyOnly(key, hdr) == hdr # <<key>>

\* if not VOYA_API_KEY or x_api_key != VOYA_API_KEY
Unauthorized(key, hdr) == key = "" \/ hdr # <<key>>

\* best_chunk and score > 60
UsableAbove(best, score) == best # NoChunk /\ score > THRESHOLD

\* if best_chunk and score >= 60
Usable(best, score) == best # NoChunk /\ score >= THRESHOLD

\* one space stands between two adjacent word tokens
Gap(t) == IF Len(t) >= 2 /\ t[1] # WS /\ t[2] # WS THEN 1 ELSE 0

RECURSIVE CharLen(_)
\* len() of a text, in characters
CharLen(t) == IF t = <<>> THEN 0 ELSE Len(Head(t)) + Gap(t) + CharLen(Tail(t))

RECURSIVE CutText(_, _)
\* text[:n]
CutText(t, n) ==
    IF t = <<>> \/ n <= 0 THEN <<>>
    ELSE IF Len(Head(t)) >= n THEN <<SubSeq(Head(t), 1, n)>>
    ELSE IF Len(Head(t)) + Gap(t) >= n THEN <<Head(t), WS>>
    ELSE <<Head(t)>> \o CutText(Tail(t), n - Len(Head(t)) - Gap(t))

\* snippet = best_chunk.text; if len(snippet) > 1200: snippet = snippet[:1200]
Snippet(t) == IF CharLen(t) > SNIPPET_CHARS THEN CutText(t, SNIPPET_CHARS) ELSE t

\* the module is imported, the call of _load_pdfs included, before the
\* application object is handed to the server and any route runs
CanServeAnytime == TRUE

CanServe == lpc = "done"

Rejected(r, hdr, ep) ==
    [Idle EXCEPT !.pc = "done", !.ep = ep, !.hdr = hdr, !.status = 401,
                 !.kind = "unauthorized"]

\* lines 47-57
Ingest(r) ==
    /\ CanServe
    /\ req[r].pc = "idle"
    /\ \E hdr \in {<<>>, <<"">>, <<"k1">>} :
        req' = [req EXCEPT ![r] =
            IF Unauthorized(VOYA_API_KEY, hdr)
            THEN Rejected(r, hdr, "ingest")
            ELSE [Idle EXCEPT !.pc = "done", !.ep = "ingest", !.hdr = hdr,
                              !.status = 200, !.kind = "accepted"]]
    /\ UNCHANGED <<VOYA_API_KEY, OPENAI_API_KEY, metaVars, loadVars, matchVars>>

\* lines 229-308, up to the await of the outbound call
Prepare(r, hdr, msg) ==
    LET paper_meta == extract_paper_meta(Some(msg))
        m == _best_page_match(msg, PDF_INDEX, fuzz, ratio)
        use == Usable(m.chunk, m.score)
        matched_doc == IF use THEN <<m.chunk[1].doc>> ELSE <<>>
        matched_page == IF use THEN <<m.chunk[1].page>> ELSE <<>>
        matched_text == IF use THEN <<Snippet(m.chunk[1].text)>> ELSE <<>>
        note == IF use THEN <<[doc |-> m.chunk[1].doc, page |-> m.chunk[1].page,
                               score |-> m.score]>>
                ELSE <<>>
    IN  IF m.exc
        THEN [Idle EXCEPT !.pc = "done", !.ep = "answer", !.hdr = hdr, !.status = 500,
                          !.kind = "unhandled", !.didMeta = TRUE, !.didMatch = TRUE,
                          !.query = msg]
        ELSE [Idle EXCEPT !.pc = "awaiting", !.ep = "answer", !.hdr = hdr,
                          !.didMeta = TRUE, !.didMatch = TRUE, !.scored = m.scored,
                          !.sent = TRUE, !.query = msg, !.best = m.chunk, !.score = m.score,
                          !.matched_doc = matched_doc, !.matched_page = matched_page,
                          !.context_note = note,
                          !.prompt = [message |-> msg,
                                      \* matched_text if matched_text else ""
                                      context |-> IF matched_text # <<>> /\ matched_text[1] # <<>>
                                                  THEN matched_text ELSE <<>>,
                                      meta |-> paper_meta]]

\* lines 197-308: the handler from its start to the await
AnswerStart(r) ==
    /\ CanServe
    /\ req[r].pc = "idle"
    /\ \E hdr \in {<<>>, <<"">>, <<"k1">>}, type \in {"Text", "image", "audio"},
          file \in BOOLEAN, msg \in {<<WS>>, <<"Paper", "42", WS>>} :
        req' = [req EXCEPT ![r] =
            IF Unauthorized(VOYA_API_KEY, hdr)
            THEN Rejected(r, hdr, "answer")
            ELSE IF file /\ Lower(type) = "image"
            THEN [Idle EXCEPT !.pc = "done", !.ep = "answer", !.hdr = hdr, !.status = 200,
                              !.kind = "placeholder",
                              !.response = [NoResponse EXCEPT !.received = msg]]
            ELSE IF Lower(type) # "text"
            THEN [Idle EXCEPT !.pc = "done", !.ep = "answer", !.hdr = hdr, !.status = 422,
                              !.kind = "bad_form"]
            ELSE IF OPENAI_API_KEY = ""
            THEN [Idle EXCEPT !.pc = "done", !.ep = "answer", !.hdr = hdr, !.status = 500,
                              !.kind = "missing_openai_key"]
            ELSE Prepare(r, hdr, msg)]
    /\ UNCHANGED <<VOYA_API_KEY, OPENAI_API_KEY, metaVars, loadVars, matchVars>>

\* lines 309-337: the handler after the completion service answered or failed
AnswerFinish(r) ==
    /\ req[r].pc = "awaiting"
    /\ \E outcome \in {"ok", "not_200", "timeout", "error"} :
        req' = [req EXCEPT ![r] =
            CASE outcome = "not_200" ->
                    [@ EXCEPT !.pc = "done", !.status = 502, !.kind = "openai_api_error",
                              !.response = NoResponse]
              [] outcome = "timeout" ->
                    [@ EXCEPT !.pc = "done", !.status = 504, !.kind = "timeout",
                              !.response = NoResponse]
              [] outcome = "error" ->
                    [@ EXCEPT !.pc = "done", !.status = 500, !.kind = "server_error",
                              !.response = NoResponse]
              [] outcome = "ok" ->
                    [@ EXCEPT !.pc = "done", !.status = 200, !.kind = "answer",
                              !.response =
                                [received |-> req[r].prompt.message,
                                 paper_meta |-> req[r].prompt.meta,
                                 template_answer |-> "gpt_answer",
                                 \* if matched_doc and matched_page
                                 retrieval |->
                                    IF /\ req[r].matched_doc # <<>>
                                       /\ req[r].matched_doc[1] # ""
                                       /\ req[r].matched_page # <<>>
                                       /\ req[r].matched_page[1] # 0
                                    THEN <<[note |-> req[r].context_note[1],
                                            doc |-> req[r].matched_doc[1],
                                            page |-> req[r].matched_page[1]]>>
                                    ELSE NoRetrieval]]]
    /\ UNCHANGED <<VOYA_API_KEY, OPENAI_API_KEY, metaVars, loadVars, matchVars>>

\* the reply has gone out; the slot takes the next request
Respond(r) ==
    /\ req[r].pc = "done"
    /\ req' = [req EXCEPT ![r] = Idle]
    /\ UNCHANGED <<VOYA_API_KEY, OPENAI_API_KEY, metaVars, loadVars, matchVars>>

(***************************************************************************)
(* The server: import (the startup load), then requests                    *)
(***************************************************************************)
NoFiles == [k \in 1..Len(StartupPaths) |-> Missing]

SomeFiles ==
    [k \in 1..Len(StartupPaths) |->
        CASE k = 1 -> Doc(<<Returns(Some(<<"a">>)), Raises, Returns(Some(<<WS, "b">>))>>, FALSE)
          [] k = 2 -> Unopenable
          [] k = 4 -> Doc(<<Returns(Some(<<WS>>)), Returns(Some(<<"a">>))>>, TRUE)
          [] OTHER -> Missing]

ServerMessages == {<<WS>>, <<"Paper", "42", WS>>}

ServerScores == {59, 60}

Init ==
    /\ MetaIdle
    /\ paths = StartupPaths
    /\ disk \in {NoFiles, SomeFiles}
    /\ PdfReader \in BOOLEAN
    /\ PDF_INDEX = <<>>
    /\ lpc = "start"
    /\ query = <<>> /\ qpc = "idle" /\ result = NoResult
    /\ fuzz \in BOOLEAN
    /\ ratio \in [RatioDomain(ServerMessages, MatchTexts) -> ServerScores]
    /\ VOYA_API_KEY \in {"", "k1"}
    /\ OPENAI_API_KEY \in {"", "sk"}
    /\ req = [r \in 1..NumReq |-> Idle]

Next ==
    \/ Load
    \/ \E r \in 1..NumReq : Ingest(r)
    \/ \E r \in 1..NumReq : AnswerStart(r)
    \/ \E r \in 1..NumReq : AnswerFinish(r)
    \/ \E r \in 1..NumReq : Respond(r)

Spec == Init /\ [][Next]_vars

(***************************************************************************)
(* Properties of _load_pdfs                                                *)
(***************************************************************************)
IsBlank(t) == \A i \in 1..Len(t) : t[i] = WS

\* the text page i of the document at paths[k] yields ("" when extraction
\* raises or returns None)
TextOfPage(k, i) ==
    LET o == disk[k].pages[i]
    IN  IF o.raises \/ ~o.ret.some THEN <<>> ELSE o.ret.val

KeepsChunk(c) == ~IsBlank(c.text)

\* the chunks of the non-blank pages of the document at paths[k], in page order
NonBlankPages(k) ==
    SelectSeq([i \in 1..Len(disk[k].pages) |->
                    [doc |-> paths[k][Len(paths[k])], page |-> i, text |-> TextOfPage(k, i)]],
              KeepsChunk)

Readable(k) == disk[k].exists /\ disk[k].opens /\ ~disk[k].aborts

RECURSIVE ReadableOnly(_)
ReadableOnly(k) ==
    IF k > Len(paths) THEN <<>>
    ELSE (IF Readable(k) THEN NonBlankPages(k) ELSE <<>>) \o ReadableOnly(k + 1)

RECURSIVE OpenedDocs(_)
OpenedDocs(k) ==
    IF k > Len(paths) THEN <<>>
    ELSE (IF disk[k].exists /\ disk[k].opens THEN NonBlankPages(k) ELSE <<>>)
            \o OpenedDocs(k + 1)

\* C2 as stated: _load_pdfs never raises; a missing or unreadable document
\* (opening or parsing it raises) contributes no chunk; every readable path
\* contributes its non-blank pages; the index is in path order, then page order.
C2_UnreadableContributesNothing ==
    /\ lpc # "raised"
    /\ (lpc = "done" /\ PdfReader) => PDF_INDEX = ReadableOnly(1)

\* C2 amended: _load_pdfs never raises; a missing document or one whose
\* opening raises contributes no chunk; a document whose page loop is left by
\* an exception keeps the non-blank pages appended before it; every other
\* existing document contributes all its non-blank pages, whatever happened at
\* earlier paths; the index is in path order, then page order; without pypdf
\* the index stays empty.
C2_LoadTolerant ==
    /\ lpc # "raised"
    /\ lpc = "done" => PDF_INDEX = (IF PdfReader THEN OpenedDocs(1) ELSE <<>>)

C2_Witness ==
    /\ lpc = "done" /\ PdfReader
    /\ Len(paths) = 2
    /\ disk[1] = Unopenable
    /\ disk[2].opens /\ ~disk[2].aborts
    /\ Len(PDF_INDEX) = 2
    /\ PDF_INDEX[1].doc = "QB1.pdf" /\ PDF_INDEX[2].page = 2

\* C3: a page whose extraction raises counts as empty and does not end the
\* document: each page the loop reaches gets a chunk exactly when its text is
\* non-blank, with its own 1-based position and its text; no chunk of the
\* index ever has blank text or a page number below 1.
C3_PageFailureIsEmptyPage ==
    /\ \A n \in 1..Len(PDF_INDEX) :
            ~IsBlank(PDF_INDEX[n].text) /\ PDF_INDEX[n].page >= 1
    /\ (lpc = "done" /\ PdfReader) =>
            \A k \in 1..Len(paths) :
                (disk[k].exists /\ disk[k].opens) =>
                    \A i \in 1..Len(disk[k].pages) :
                        LET here == {n \in 1..Len(PDF_INDEX) :
                                        /\ PDF_INDEX[n].doc = paths[k][Len(paths[k])]
                                        /\ PDF_INDEX[n].page = i}
                        IN  IF disk[k].pages[i].raises \/ IsBlank(TextOfPage(k, i))
                            THEN here = {}
                            ELSE /\ Cardinality(here) = 1
                                 /\ \A n \in here : PDF_INDEX[n].text = TextOfPage(k, i)

C3_Witness ==
    /\ lpc = "done" /\ PdfReader
    /\ Len(paths) = 1
    /\ disk[1].opens
    /\ Len(disk[1].pages) = 2
    /\ disk[1].pages[1] = Raises
    /\ PDF_INDEX = <<[doc |-> "QB1.pdf", page |-> 2, text |-> <<"a", WS>>]>>

(***************************************************************************)
(* Properties of _best_page_match                                          *)
(***************************************************************************)
ScanHappens == PDF_INDEX # <<>> /\ ~IsBlank(query) /\ fuzz

ScoreAt(n) == ratio[<<Strip(query), PDF_INDEX[n].text>>]

IsMaxAt(n) == \A m \in 1..Len(PDF_INDEX) : ScoreAt(m) <= ScoreAt(n)

\* C1: on a non-empty index, with a non-blank query and the scorer present,
\* _best_page_match returns the maximum score over the index and the chunk at
\* the smallest position that attains it (on a tie, the earliest chunk).
C1_MaxScoreEarliestChunk ==
    (qpc = "done" /\ ScanHappens) =>
        \E n \in 1..Len(PDF_INDEX) :
            /\ IsMaxAt(n)
            /\ \A m \in 1..(n - 1) : ScoreAt(m) < ScoreAt(n)
            /\ result.score = ScoreAt(n)
            /\ result.chunk = <<PDF_INDEX[n]>>

C1_Witness ==
    /\ qpc = "done" /\ ScanHappens
    /\ Len(PDF_INDEX) >= 3
    /\ ScoreAt(1) < ScoreAt(2) /\ ScoreAt(2) = ScoreAt(3) /\ IsMaxAt(2)
    /\ result.chunk = <<PDF_INDEX[2]>>

\* C5: _best_page_match returns exactly (None, 0), scoring nothing and not
\* raising, when the index is empty or the query is blank or the scorer is
\* missing; otherwise it returns a chunk of the index and a score that is not
\* the initial -1.
C5_NoMatchCases ==
    qpc = "done" =>
        /\ ~result.exc
        /\ IF ScanHappens
           THEN /\ result.chunk # NoChunk
                /\ \E n \in 1..Len(PDF_INDEX) : result.chunk = <<PDF_INDEX[n]>>
                /\ result.score \in 0..100
           ELSE /\ result.chunk = NoChunk
                /\ result.score = 0
                /\ result.scored = 0

C5_Witness ==
    /\ qpc = "done"
    /\ ~fuzz /\ PDF_INDEX # <<>> /\ ~IsBlank(query)
    /\ result.chunk = NoChunk /\ result.score = 0 /\ result.scored = 0

(***************************************************************************)
(* Properties of the server                                                *)
(***************************************************************************)
Runs == 1..NumReq

Matched(r) == req[r].didMatch /\ req[r].kind # "unhandled"

\* C4: the index is filled by the startup load alone, which is over before any
\* request is handled; no step of a request changes the index; so whatever
\* the interleaving, the chunk and score a request got from _best_page_match
\* are those of the same call on the index as it now stands.
C4_IndexReadOnly ==
    /\ [][lpc = "done" => PDF_INDEX' = PDF_INDEX]_vars
    /\ [](\A r \in Runs : req[r].pc # "idle" => lpc = "done")
    /\ [](\A r \in Runs : Matched(r) =>
            LET alone == _best_page_match(req[r].query, PDF_INDEX, fuzz, ratio)
            IN  req[r].best = alone.chunk /\ req[r].score = alone.score)

C4_Witness ==
    /\ lpc = "done"
    /\ Len(PDF_INDEX) = 3
    /\ req[1].pc = "awaiting" /\ req[2].pc = "done" /\ req[2].kind = "answer"
    /\ req[1].query = req[2].query
    /\ req[1].best = <<PDF_INDEX[2]>> /\ req[2].best = req[1].best
    /\ req[1].score = req[2].score

Used(r) == req[r].best # NoChunk /\ req[r].score >= 60

\* C6: in the answer handler the match is used exactly when a chunk came back
\* with a score of at least 60: then, and only then, the prompt carries the
\* page text and the reply a "retrieval" entry; below 60, and with no match,
\* prompt and reply are those of a request without a match.
C6_ThresholdGate ==
    \A r \in Runs :
        (req[r].ep = "answer" /\ req[r].sent) =>
            /\ req[r].prompt.context # <<>> <=> Used(r)
            /\ Used(r) => req[r].prompt.context = <<Snippet(req[r].best[1].text)>>
            /\ ~Used(r) =>
                    req[r].prompt = [message |-> req[r].query, context |-> <<>>,
                                     meta |-> extract_paper_meta(Some(req[r].query))]
            /\ req[r].kind = "answer" =>
                    /\ req[r].response.retrieval # NoRetrieval <=> Used(r)
                    /\ Used(r) =>
                            /\ req[r].response.retrieval[1].doc = req[r].best[1].doc
                            /\ req[r].response.retrieval[1].page = req[r].best[1].page
                    /\ ~Used(r) =>
                            req[r].response =
                                [received |-> req[r].query,
                                 paper_meta |-> extract_paper_meta(Some(req[r].query)),
                                 template_answer |-> "gpt_answer",
                                 retrieval |-> NoRetrieval]

C6_Witness ==
    /\ req[1].kind = "answer" /\ req[1].score = 60
    /\ req[1].response.retrieval # NoRetrieval
    /\ req[1].prompt.context = <<<<WS, "b">>>>
    /\ req[2].kind = "answer" /\ req[2].best = NoChunk /\ req[2].score = 0
    /\ req[2].prompt.context = <<>>
    /\ req[2].response.retrieval = NoRetrieval

\* C10: both /answer and /ingest check the key first: with the server key
\* unset (whatever the header) or a header that differs from it, the reply is
\* 401 and nothing later happens: no metadata extraction, no index scan, no
\* outbound completion call, no "accepted" ingest reply.
C10_KeyCheckFirst ==
    \A r \in Runs :
        (req[r].pc # "idle" /\ (VOYA_API_KEY = "" \/ req[r].hdr # <<VOYA_API_KEY>>)) =>
            /\ req[r].status = 401
            /\ ~req[r].didMeta
            /\ ~req[r].didMatch /\ req[r].scored = 0
            /\ ~req[r].sent
            /\ req[r].kind # "accepted"

C10_Witness ==
    /\ VOYA_API_KEY = ""
    /\ req[1].ep = "answer" /\ req[1].hdr = <<"">> /\ req[1].status = 401
    /\ req[2].ep = "ingest" /\ req[2].hdr = <<"k1">> /\ req[2].status = 401

(***************************************************************************)
(* Properties of extract_paper_meta                                        *)
(***************************************************************************)
MsgWords == Words(TextOf(message).val)

PaperFound(k) == Search(PAPER_PATTERNS[k].pat, MsgWords) # 0

PaperCapture(k) ==
    Groups(PAPER_PATTERNS[k].pat, MsgWords, Search(PAPER_PATTERNS[k].pat, MsgWords))[1]

\* the alternatives that bind paper: "both" and the two of kind "paper"
PaperBinders == {k \in 1..Len(PAPER_PATTERNS) : PAPER_PATTERNS[k].kind \in {"both", "paper"}}

\* C7: after the paper/variant pass, paper is the capture of the earliest
\* alternative in list order that matched and binds paper; a later alternative
\* (the abbreviated "P N") never replaces what an earlier one ("Paper N") bound.
C7_FirstPaperAlternativeWins ==
    mpc = "split" =>
        \A k \in PaperBinders :
            (PaperFound(k) /\ \A j \in PaperBinders : j < k => ~PaperFound(j))
                => paper = PaperCapture(k)

TwoDigitCodes == {a \o b : a \in Digit, b \in Digit}

\* C8: the return step splits the captured paper code into first and second
\* digit exactly when it has two digits and no variant was found; otherwise
\* paper and variant are returned as captured.  "Paper 42" alone gives 4 / 2.
C8_DigitSplit ==
    /\ [][mpc = "split" =>
            IF paper \in TwoDigitCodes /\ variant = Unknown
            THEN /\ meta'.paper = SubSeq(paper, 1, 1)
                 /\ meta'.variant = SubSeq(paper, 2, 2)
            ELSE /\ meta'.paper = paper
                 /\ meta'.variant = variant]_vars
    /\ [](mpc = "done" /\ MsgWords = <<"Paper", "42">>
            => meta.paper = "4" /\ meta.variant = "2")

C8_Witness ==
    /\ mpc = "done"
    /\ message = Some(<<WS, "Paper", WS, "42", WS>>)
    /\ meta.paper = "4" /\ meta.variant = "2"

ExamLabels == {EXAM_HINTS[k].label : k \in 1..Len(EXAM_HINTS)}

OneOrTwoDigits == Digit \cup TwoDigitCodes

NoExamHint == \A k \in 1..Len(EXAM_HINTS) : \A a \in EXAM_HINTS[k].alts : Search(a, MsgWords) = 0

NoSessionPattern == \A k \in 1..Len(SESSION_PATTERNS) : Search(SESSION_PATTERNS[k].pat, MsgWords) = 0

NoPaperPattern == \A k \in 1..Len(PAPER_PATTERNS) : ~PaperFound(k)

\* C9: extract_paper_meta never raises; it returns exactly the four fields
\* exam, session, paper, variant, each a recognized value or "Unknown"; a
\* family without a match gives "Unknown"; empty or null input gives four
\* "Unknown".
C9_ExtractTotal ==
    /\ mpc # "raised"
    /\ mpc = "done" =>
        /\ DOMAIN meta = {"exam", "session", "paper", "variant"}
        /\ meta.exam \in ExamLabels \cup {Unknown}
        /\ meta.session # ""
        /\ meta.paper \in OneOrTwoDigits \cup {Unknown}
        /\ meta.variant \in OneOrTwoDigits \cup {Unknown}
        /\ NoExamHint => meta.exam = Unknown
        /\ NoSessionPattern <=> meta.session = Unknown
        /\ NoPaperPattern => meta.paper = Unknown /\ meta.variant = Unknown
        /\ (message = None \/ message = Some(<<>>)) =>
                meta = [exam |-> Unknown, session |-> Unknown,
                        paper |-> Unknown, variant |-> Unknown]

C9_Witness ==
    /\ mpc = "done"
    /\ message = None
    /\ meta.exam = Unknown /\ meta.session = Unknown
    /\ meta.paper = Unknown /\ meta.variant = Unknown

====
